---- MODULE Spec2Model ----
(***************************************************************************)
(* The editing core of Onyx: Buffer (rope, cursor, selection), VimEngine   *)
(* (mode, pending_operator, pending_g) and Editor (buffer, vim,            *)
(* yank_register), as written in the Milestone 2 plan.                     *)
(*                                                                         *)
(* A rope is a sequence of one-character strings.  Character indices and   *)
(* line indices are zero-based as in the source; TLA+ sequences are        *)
(* one-based, so rope[i + 1] is the character of index i.                  *)
(***************************************************************************)
EXTENDS Integers, Sequences, FiniteSets, TLC

\* ---------------------------------------------------------------- bounds
\* Longest document of an Editor: initial documents and every edit stay within it.
EditorMaxLen == 3
\* Longest document of a Buffer whose methods are called directly.
BufferMaxLen == 3
\* Longest string handed to Buffer::insert in one call.
MaxInsert == 2
\* Longest document of each of two Editors that are given the same keys.
PairMaxLen == 1

\* Characters of the documents given to Buffer::new: an alphanumeric one, a
\* blank, a line break.
Chars == {"a", " ", "\n"}
\* Characters typed in Insert mode, and with the line break the characters of
\* the documents given to Editor::new.
TypedChars == {"a"}

\* The strings over chars of length at most n.
RECURSIVE SeqsUpTo(_, _)
SeqsUpTo(chars, n) ==
    IF n = 0 THEN {<<>>}
    ELSE LET shorter == SeqsUpTo(chars, n - 1)
         IN  shorter \cup {Append(s, c) : s \in {t \in shorter : Len(t) = n - 1}, c \in chars}

Min(a, b) == IF a <= b THEN a ELSE b
\* usize::saturating_sub
saturating_sub(a, b) == IF a >= b THEN a - b ELSE 0

\* char::is_alphanumeric, on the characters of the model
is_alphanumeric(c) == c = "a"
\* char::is_whitespace, as used by str::trim
is_whitespace(c) == c \in {" ", "\n"}

\* ------------------------------------------------------------ ropey::Rope
\* Indices (one-based) of the line breaks of r.
LineBreaks(r) == {i \in 1..Len(r) : r[i] = "\n"}

\* Rope::len_lines: the number of line breaks plus one.
len_lines(r) == Cardinality(LineBreaks(r)) + 1

\* Rope::line_to_char is defined for line_idx <= len_lines (one past the end).
line_to_char_ok(r, line_idx) == line_idx <= len_lines(r)

\* Rope::line_to_char: the index of the first character of a line.
line_to_char(r, line_idx) ==
    IF line_idx = 0 THEN 0
    ELSE IF line_idx >= len_lines(r) THEN Len(r)
    ELSE CHOOSE i \in LineBreaks(r) :
             Cardinality({j \in LineBreaks(r) : j <= i}) = line_idx

\* Rope::line is defined for line_idx < len_lines.
line_ok(r, line_idx) == line_idx < len_lines(r)

\* Rope::line: the characters of a line, its line break included.
rope_line(r, line_idx) ==
    SubSeq(r, line_to_char(r, line_idx) + 1, line_to_char(r, line_idx + 1))

\* Rope::insert is defined for char_idx <= len_chars.
rope_insert_ok(r, char_idx) == char_idx <= Len(r)

rope_insert(r, char_idx, text) ==
    SubSeq(r, 1, char_idx) \o text \o SubSeq(r, char_idx + 1, Len(r))

\* Rope::remove and Rope::slice are defined for start <= end <= len_chars.
range_ok(r, s, e) == s <= e /\ e <= Len(r)

\* Rope::remove(s..e)
rope_remove(r, s, e) == SubSeq(r, 1, s) \o SubSeq(r, e + 1, Len(r))

\* Rope::slice(s..e)
rope_slice(r, s, e) == SubSeq(r, s + 1, e)

\* ----------------------------------------------------------------- Buffer
\* Option<Selection>: <<>> is None, <<sel>> is Some(sel).
NoSelection == <<>>

Cursor(l, c) == [line |-> l, col |-> c]
Selection(a, h) == [anchor |-> a, head |-> h]

\* Buffer::new.  panicked records that a call made on this buffer unwound
\* from a panic (an index outside the rope, an index outside a line).
Buffer_new(text) ==
    [rope |-> text, cursor |-> Cursor(0, 0), selection |-> NoSelection,
     panicked |-> FALSE]

Panic(b) == [b EXCEPT !.panicked = TRUE]

\* Buffer::line_count
line_count(b) == len_lines(b.rope)

\* self.rope.line_to_char(self.cursor.line) + self.cursor.col
cursor_char_idx(b) == line_to_char(b.rope, b.cursor.line) + b.cursor.col

\* The cursor after advancing past text (the loop of Buffer::insert).
RECURSIVE advance(_, _)
advance(cur, text) ==
    IF text = <<>> THEN cur
    ELSE advance(IF Head(text) = "\n" THEN Cursor(cur.line + 1, 0)
                 ELSE Cursor(cur.line, cur.col + 1),
                 Tail(text))

\* insert that leaves the cursor where it was, before the inserted text.
insert_leaves_cursor(b, text) ==
    IF ~line_to_char_ok(b.rope, b.cursor.line) THEN Panic(b)
    ELSE LET char_idx == cursor_char_idx(b)
         IN  IF ~rope_insert_ok(b.rope, char_idx) THEN Panic(b)
             ELSE [b EXCEPT !.rope = rope_insert(b.rope, char_idx, text)]

\* Buffer::insert
insert(b, text) ==
    IF ~line_to_char_ok(b.rope, b.cursor.line) THEN Panic(b)
    ELSE LET char_idx == cursor_char_idx(b)
         IN  IF ~rope_insert_ok(b.rope, char_idx) THEN Panic(b)
             ELSE [b EXCEPT !.rope = rope_insert(b.rope, char_idx, text),
                            !.cursor = advance(b.cursor, text)]

\* delete_before with the line of the cursor left as it was when two lines join.
delete_before_keeps_line(b) ==
    IF b.cursor.col = 0 /\ b.cursor.line = 0 THEN b
    ELSE LET char_idx == cursor_char_idx(b)
         IN  IF char_idx = 0 \/ ~range_ok(b.rope, char_idx - 1, char_idx) THEN b
             ELSE [b EXCEPT !.rope = rope_remove(b.rope, char_idx - 1, char_idx),
                            !.cursor.col = saturating_sub(b.cursor.col, 1)]

\* Buffer::delete_before
delete_before(b) ==
    IF b.cursor.col = 0 /\ b.cursor.line = 0 THEN b
    ELSE IF ~line_to_char_ok(b.rope, b.cursor.line) THEN Panic(b)
    ELSE LET char_idx == cursor_char_idx(b)
         IN  IF char_idx = 0 THEN b
             ELSE IF ~range_ok(b.rope, char_idx - 1, char_idx) THEN Panic(b)
             ELSE LET rope2 == rope_remove(b.rope, char_idx - 1, char_idx)
                  IN  IF b.cursor.col = 0
                      THEN IF ~line_ok(rope2, b.cursor.line - 1) THEN Panic(b)
                           ELSE [b EXCEPT
                                   !.rope = rope2,
                                   !.cursor = Cursor(b.cursor.line - 1,
                                       saturating_sub(
                                           Len(rope_line(rope2, b.cursor.line - 1)), 1))]
                      ELSE [b EXCEPT !.rope = rope2,
                                     !.cursor = Cursor(b.cursor.line, b.cursor.col - 1)]

\* Buffer::delete_char_at_cursor
delete_char_at_cursor(b) ==
    IF ~line_ok(b.rope, b.cursor.line) THEN Panic(b)
    ELSE LET line_len == Len(rope_line(b.rope, b.cursor.line))
             char_idx == cursor_char_idx(b)
         IN  IF line_len = 0 THEN b
             ELSE IF ~range_ok(b.rope, char_idx, char_idx + 1) THEN Panic(b)
             ELSE LET rope2 == rope_remove(b.rope, char_idx, char_idx + 1)
                  IN  IF ~line_ok(rope2, b.cursor.line) THEN Panic(b)
                      ELSE LET new_line_len == Len(rope_line(rope2, b.cursor.line))
                           IN  [b EXCEPT
                                  !.rope = rope2,
                                  !.cursor = IF b.cursor.col >= new_line_len /\ new_line_len > 0
                                             THEN Cursor(b.cursor.line, new_line_len - 1)
                                             ELSE b.cursor]

\* let max = if line_len > 0 { line_len - 1 } else { 0 }, for a line of the rope
max_col(r, line_idx) ==
    LET line_len == Len(rope_line(r, line_idx))
    IN  IF line_len > 0 THEN line_len - 1 ELSE 0

\* Buffer::move_left
move_left(b) == [b EXCEPT !.cursor.col = saturating_sub(b.cursor.col, 1)]

\* Buffer::move_right
move_right(b) ==
    IF ~line_ok(b.rope, b.cursor.line) THEN Panic(b)
    ELSE IF b.cursor.col < max_col(b.rope, b.cursor.line)
         THEN [b EXCEPT !.cursor.col = b.cursor.col + 1]
         ELSE b

\* Buffer::move_up
move_up(b) ==
    IF b.cursor.line > 0
    THEN IF ~line_ok(b.rope, b.cursor.line - 1) THEN Panic(b)
         ELSE [b EXCEPT !.cursor =
                 Cursor(b.cursor.line - 1,
                        Min(b.cursor.col, max_col(b.rope, b.cursor.line - 1)))]
    ELSE b

\* Buffer::move_down
move_down(b) ==
    IF b.cursor.line + 1 < len_lines(b.rope)
    THEN [b EXCEPT !.cursor =
            Cursor(b.cursor.line + 1,
                   Min(b.cursor.col, max_col(b.rope, b.cursor.line + 1)))]
    ELSE b

\* Buffer::move_line_start
move_line_start(b) == [b EXCEPT !.cursor.col = 0]

\* Buffer::move_line_end
move_line_end(b) ==
    IF ~line_ok(b.rope, b.cursor.line) THEN Panic(b)
    ELSE [b EXCEPT !.cursor.col = max_col(b.rope, b.cursor.line)]

\* The two forward loops of Buffer::move_word_forward: advance col while the
\* character at col is (alnum = TRUE) or is not (alnum = FALSE) alphanumeric.
RECURSIVE skip_forward(_, _, _)
skip_forward(chars, col, alnum) ==
    IF col < Len(chars) /\ (is_alphanumeric(chars[col + 1]) = alnum)
    THEN skip_forward(chars, col + 1, alnum)
    ELSE col

\* Buffer::move_word_forward
move_word_forward(b) ==
    IF ~line_ok(b.rope, b.cursor.line) THEN Panic(b)
    ELSE LET chars == rope_line(b.rope, b.cursor.line)
             col1 == skip_forward(chars, b.cursor.col, TRUE)
             col2 == skip_forward(chars, col1, FALSE)
         IN  [b EXCEPT !.cursor.col = Min(col2, saturating_sub(Len(chars), 1))]

\* while col > 0 && !chars[col].is_alphanumeric() { col -= 1 }
RECURSIVE skip_back_nonword(_, _)
skip_back_nonword(chars, col) ==
    IF col > 0 /\ ~is_alphanumeric(chars[col + 1])
    THEN skip_back_nonword(chars, col - 1)
    ELSE col

\* while col > 0 && chars[col - 1].is_alphanumeric() { col -= 1 }
RECURSIVE skip_back_word(_, _)
skip_back_word(chars, col) ==
    IF col > 0 /\ is_alphanumeric(chars[col])
    THEN skip_back_word(chars, col - 1)
    ELSE col

\* Buffer::move_word_back
move_word_back(b) ==
    IF ~line_ok(b.rope, b.cursor.line) THEN Panic(b)
    ELSE LET chars == rope_line(b.rope, b.cursor.line)
         IN  IF b.cursor.col = 0 THEN b
             \* chars[col] with col at or past the end of the Vec
             ELSE IF b.cursor.col - 1 > 0 /\ b.cursor.col - 1 >= Len(chars) THEN Panic(b)
             ELSE [b EXCEPT !.cursor.col =
                     skip_back_word(chars, skip_back_nonword(chars, b.cursor.col - 1))]

\* Buffer::move_first_line
move_first_line(b) == [b EXCEPT !.cursor = Cursor(0, 0)]

\* Buffer::move_last_line
move_last_line(b) ==
    [b EXCEPT !.cursor = Cursor(saturating_sub(len_lines(b.rope), 1), 0)]

\* self.rope.line(line).to_string().trim().is_empty()
is_blank_line(r, line_idx) ==
    \A i \in 1..Len(rope_line(r, line_idx)) : is_whitespace(rope_line(r, line_idx)[i])

\* Buffer::move_paragraph_forward
move_paragraph_forward(b) ==
    LET blank == {l \in (b.cursor.line + 1)..(len_lines(b.rope) - 1) :
                      is_blank_line(b.rope, l)}
    IN  IF blank # {}
        THEN [b EXCEPT !.cursor = Cursor(CHOOSE l \in blank : \A m \in blank : l <= m, 0)]
        ELSE [b EXCEPT !.cursor = Cursor(saturating_sub(len_lines(b.rope), 1), 0)]

\* Buffer::move_paragraph_back
move_paragraph_back(b) ==
    IF b.cursor.line = 0 THEN b
    ELSE IF ~line_ok(b.rope, b.cursor.line - 1) THEN Panic(b)
    ELSE LET blank == {l \in 0..(b.cursor.line - 1) : is_blank_line(b.rope, l)}
         IN  IF blank # {}
             THEN [b EXCEPT !.cursor =
                     Cursor(CHOOSE l \in blank : \A m \in blank : l >= m, 0)]
             ELSE [b EXCEPT !.cursor = Cursor(0, 0)]

\* start_visual with the anchor at the start of the document.
start_visual_from_origin(b) == [b EXCEPT !.selection = <<Selection(Cursor(0, 0), b.cursor)>>]

\* Buffer::start_visual
start_visual(b) == [b EXCEPT !.selection = <<Selection(b.cursor, b.cursor)>>]

\* Buffer::update_visual_head
update_visual_head(b) ==
    IF b.selection # NoSelection
    THEN [b EXCEPT !.selection = <<Selection(b.selection[1].anchor, b.cursor)>>]
    ELSE b

\* clear_selection that leaves the selection in place.
clear_selection_keeps(b) == b

\* Buffer::clear_selection
clear_selection(b) == [b EXCEPT !.selection = NoSelection]

\* start_char of yank_selection and delete_selection
sel_start_char(b) ==
    line_to_char(b.rope, b.selection[1].anchor.line) + b.selection[1].anchor.col

\* end_char of yank_selection and delete_selection
sel_end_char(b) ==
    line_to_char(b.rope, b.selection[1].head.line) + b.selection[1].head.col + 1

\* let (s, e) = if start_char <= end_char { (start_char, end_char) }
\*              else { (end_char, start_char) }
sel_range(b) ==
    IF sel_start_char(b) <= sel_end_char(b)
    THEN <<sel_start_char(b), sel_end_char(b)>>
    ELSE <<sel_end_char(b), sel_start_char(b)>>

\* The two line_to_char calls and the slice/remove of the selection's range
\* all stay inside the rope.
sel_range_ok(b) ==
    /\ line_to_char_ok(b.rope, b.selection[1].anchor.line)
    /\ line_to_char_ok(b.rope, b.selection[1].head.line)
    /\ range_ok(b.rope, sel_range(b)[1], sel_range(b)[2])

\* Buffer::yank_selection: [buf |-> the buffer (panicked or not), ret |-> String]
yank_selection(b) ==
    IF b.selection = NoSelection THEN [buf |-> b, ret |-> <<>>]
    ELSE IF ~sel_range_ok(b) THEN [buf |-> Panic(b), ret |-> <<>>]
    ELSE [buf |-> b, ret |-> rope_slice(b.rope, sel_range(b)[1], sel_range(b)[2])]

\* Buffer::delete_selection: [buf |-> the buffer after the call, ret |-> String]
delete_selection(b) ==
    LET yanked == yank_selection(b)
    IN  IF yanked.buf.panicked THEN yanked
        ELSE IF b.selection = NoSelection THEN [buf |-> b, ret |-> yanked.ret]
        ELSE [buf |-> [b EXCEPT
                          !.rope = rope_remove(b.rope, sel_range(b)[1], sel_range(b)[2]),
                          !.cursor = IF sel_start_char(b) <= sel_end_char(b)
                                     THEN b.selection[1].anchor
                                     ELSE b.selection[1].head,
                          !.selection = NoSelection],
              ret |-> yanked.ret]

\* paste that puts the text after the character under the cursor.
paste_after_cursor(b, text) == insert([b EXCEPT !.cursor.col = b.cursor.col + 1], text)

\* Buffer::paste
paste(b, text) == insert(b, text)

\* -------------------------------------------------------------- VimEngine
\* enum Key: Char(c) carries its character, the other variants carry none.
Char(c) == [kind |-> "Char", ch |-> c]
Escape == [kind |-> "Escape", ch |-> ""]
Backspace == [kind |-> "Backspace", ch |-> ""]
Enter == [kind |-> "Enter", ch |-> ""]
Left == [kind |-> "Left", ch |-> ""]
Right == [kind |-> "Right", ch |-> ""]
Up == [kind |-> "Up", ch |-> ""]
Down == [kind |-> "Down", ch |-> ""]

\* Char('\x12'), ctrl+r
CtrlR == Char("^R")

\* enum BufferCommand: Insert(c) carries its character.
Cmd(name) == [name |-> name, ch |-> ""]
InsertCmd(c) == [name |-> "Insert", ch |-> c]

\* Option<BufferCommand> and Option<char>: <<>> is None, <<x>> is Some(x).
None == <<>>
Some(x) == <<x>>

\* VimEngine::new
VimEngine_new == [mode |-> "Normal", pending_operator |-> None, pending_g |-> FALSE]

\* What VimEngine::handle_key leaves: the engine and the returned command.
Out(vm, cmd) == [vim |-> vm, cmd |-> cmd]

\* The match of VimEngine::handle_normal, reached when pending_g is not set.
handle_normal_match(vm, key) ==
    CASE key = Char("h") \/ key = Left  -> Out(vm, Some(Cmd("MoveLeft")))
      [] key = Char("l") \/ key = Right -> Out(vm, Some(Cmd("MoveRight")))
      [] key = Char("k") \/ key = Up    -> Out(vm, Some(Cmd("MoveUp")))
      [] key = Char("j") \/ key = Down  -> Out(vm, Some(Cmd("MoveDown")))
      [] key = Char("w") -> Out(vm, Some(Cmd("MoveWordForward")))
      [] key = Char("b") -> Out(vm, Some(Cmd("MoveWordBack")))
      [] key = Char("e") -> Out(vm, Some(Cmd("MoveWordEnd")))
      [] key = Char("0") -> Out(vm, Some(Cmd("MoveLineStart")))
      [] key = Char("$") -> Out(vm, Some(Cmd("MoveLineEnd")))
      [] key = Char("G") -> Out(vm, Some(Cmd("MoveLastLine")))
      [] key = Char("{") -> Out(vm, Some(Cmd("MoveParagraphBack")))
      [] key = Char("}") -> Out(vm, Some(Cmd("MoveParagraphForward")))
      [] key = Char("g") -> Out([vm EXCEPT !.pending_g = TRUE], None)
      [] key = Char("i") -> Out([vm EXCEPT !.mode = "Insert"], None)
      [] key = Char("a") -> Out([vm EXCEPT !.mode = "Insert"], Some(Cmd("MoveRight")))
      [] key = Char("A") -> Out([vm EXCEPT !.mode = "Insert"], Some(Cmd("MoveLineEnd")))
      [] key = Char("o") -> Out([vm EXCEPT !.mode = "Insert"], Some(Cmd("InsertNewline")))
      [] key = Char("v") -> Out([vm EXCEPT !.mode = "Visual"], Some(Cmd("StartVisual")))
      [] key = Char("V") -> Out([vm EXCEPT !.mode = "Visual"], Some(Cmd("StartVisualLine")))
      [] key = Char("x") -> Out(vm, Some(Cmd("DeleteCharAtCursor")))
      [] key = Char("d") ->
            IF vm.pending_operator = Some("d")
            THEN Out([vm EXCEPT !.pending_operator = None], Some(Cmd("DeleteLine")))
            ELSE Out([vm EXCEPT !.pending_operator = Some("d")], None)
      [] key = Char("c") -> Out([vm EXCEPT !.pending_operator = Some("c")], None)
      [] key = Char("y") ->
            IF vm.pending_operator = Some("y")
            THEN Out([vm EXCEPT !.pending_operator = None], Some(Cmd("Yank")))
            ELSE Out([vm EXCEPT !.pending_operator = Some("y")], None)
      [] key = Char("p") -> Out(vm, Some(Cmd("Paste")))
      [] key = Char("u") -> Out(vm, Some(Cmd("Undo")))
      [] key = CtrlR -> Out(vm, Some(Cmd("Redo")))
      [] OTHER -> Out([vm EXCEPT !.pending_operator = None], None)

\* handle_normal whose c waits for a second c, the way d and y do.
handle_normal_c_waits(vm, key) ==
    IF vm.pending_g
    THEN IF key = Char("g")
         THEN Out([vm EXCEPT !.pending_g = FALSE], Some(Cmd("MoveFirstLine")))
         ELSE Out([vm EXCEPT !.pending_g = FALSE], None)
    ELSE IF key = Char("c") /\ vm.pending_operator = Some("c")
         THEN Out([vm EXCEPT !.pending_operator = None], Some(Cmd("Change")))
    ELSE handle_normal_match(vm, key)

\* handle_normal whose i appends: it emits the move to the right that a emits.
handle_normal_i_appends(vm, key) ==
    IF vm.pending_g
    THEN IF key = Char("g")
         THEN Out([vm EXCEPT !.pending_g = FALSE], Some(Cmd("MoveFirstLine")))
         ELSE Out([vm EXCEPT !.pending_g = FALSE], None)
    ELSE IF key = Char("i") THEN handle_normal_match(vm, Char("a"))
    ELSE handle_normal_match(vm, key)

\* handle_normal with a second d or y that emits its command and leaves the
\* marker set.
handle_normal_repeat_keeps_marker(vm, key) ==
    IF vm.pending_g
    THEN IF key = Char("g")
         THEN Out([vm EXCEPT !.pending_g = FALSE], Some(Cmd("MoveFirstLine")))
         ELSE Out([vm EXCEPT !.pending_g = FALSE], None)
    ELSE LET out == handle_normal_match(vm, key)
         IN  IF out.cmd \in {Some(Cmd("DeleteLine")), Some(Cmd("Yank"))}
             THEN Out(vm, out.cmd)
             ELSE out

\* handle_normal with a pending g whose next key also drops the operator marker.
handle_normal_g_clears_operator(vm, key) ==
    IF vm.pending_g
    THEN IF key = Char("g")
         THEN Out([vm EXCEPT !.pending_g = FALSE, !.pending_operator = None],
                  Some(Cmd("MoveFirstLine")))
         ELSE Out([vm EXCEPT !.pending_g = FALSE, !.pending_operator = None], None)
    ELSE handle_normal_match(vm, key)

\* VimEngine::handle_normal
handle_normal(vm, key) ==
    IF vm.pending_g
    THEN IF key = Char("g")
         THEN Out([vm EXCEPT !.pending_g = FALSE], Some(Cmd("MoveFirstLine")))
         ELSE Out([vm EXCEPT !.pending_g = FALSE], None)
    ELSE handle_normal_match(vm, key)

\* handle_insert that takes u for the undo command of Normal mode.
handle_insert_u_is_undo(vm, key) ==
    CASE key = Escape -> Out([vm EXCEPT !.mode = "Normal"], None)
      [] key = Backspace -> Out(vm, Some(Cmd("DeleteBefore")))
      [] key = Enter -> Out(vm, Some(Cmd("InsertNewline")))
      [] key = Char("u") -> Out(vm, Some(Cmd("Undo")))
      [] key.kind = "Char" -> Out(vm, Some(InsertCmd(key.ch)))
      [] OTHER -> Out(vm, None)

\* handle_insert with an Escape that also steps the cursor back, as Vim's does.
handle_insert_escape_moves_left(vm, key) ==
    CASE key = Escape -> Out([vm EXCEPT !.mode = "Normal"], Some(Cmd("MoveLeft")))
      [] key = Backspace -> Out(vm, Some(Cmd("DeleteBefore")))
      [] key = Enter -> Out(vm, Some(Cmd("InsertNewline")))
      [] key.kind = "Char" -> Out(vm, Some(InsertCmd(key.ch)))
      [] OTHER -> Out(vm, None)

\* VimEngine::handle_insert
handle_insert(vm, key) ==
    CASE key = Escape -> Out([vm EXCEPT !.mode = "Normal"], None)
      [] key = Backspace -> Out(vm, Some(Cmd("DeleteBefore")))
      [] key = Enter -> Out(vm, Some(Cmd("InsertNewline")))
      [] key.kind = "Char" -> Out(vm, Some(InsertCmd(key.ch)))
      [] OTHER -> Out(vm, None)

\* VimEngine::handle_visual
handle_visual(vm, key) ==
    CASE key = Escape -> Out([vm EXCEPT !.mode = "Normal"], Some(Cmd("ClearSelection")))
      [] key = Char("h") \/ key = Left  -> Out(vm, Some(Cmd("MoveLeft")))
      [] key = Char("l") \/ key = Right -> Out(vm, Some(Cmd("MoveRight")))
      [] key = Char("k") \/ key = Up    -> Out(vm, Some(Cmd("MoveUp")))
      [] key = Char("j") \/ key = Down  -> Out(vm, Some(Cmd("MoveDown")))
      [] key = Char("d") \/ key = Char("x") ->
            Out([vm EXCEPT !.mode = "Normal"], Some(Cmd("Delete")))
      [] key = Char("y") -> Out([vm EXCEPT !.mode = "Normal"], Some(Cmd("Yank")))
      [] key = Char("c") -> Out([vm EXCEPT !.mode = "Insert"], Some(Cmd("Change")))
      [] OTHER -> Out(vm, None)

\* VimEngine::handle_key
vim_handle_key(vm, key) ==
    CASE vm.mode = "Normal" -> handle_normal(vm, key)
      [] vm.mode = "Insert" -> handle_insert(vm, key)
      [] vm.mode = "Visual" -> handle_visual(vm, key)

\* ----------------------------------------------------------------- Editor
\* What Editor::apply leaves: the buffer and the yank register.
Applied(b, reg) == [buffer |-> b, yank_register |-> reg]

\* The statements of the DeleteLine arm up to the assignment of the register.
delete_line_selection(b) ==
    LET b1 == start_visual(move_line_start(b))
        b2 == move_line_end(b1)
    IN  IF b2.panicked THEN [buf |-> b2, ret |-> <<>>]
        ELSE delete_selection(update_visual_head(b2))

\* The DeleteLine arm of Editor::apply
apply_delete_line(b, reg) ==
    LET deleted == delete_line_selection(b)
    IN  IF deleted.buf.panicked THEN Applied(deleted.buf, reg)
        ELSE Applied(delete_char_at_cursor(deleted.buf), deleted.ret)

\* The StartVisualLine arm of Editor::apply
apply_start_visual_line(b) ==
    LET b2 == move_line_end(start_visual(move_line_start(b)))
    IN  IF b2.panicked THEN b2 ELSE update_visual_head(b2)

\* The Yank arm with a register that an empty yank leaves as it was.
apply_yank_keeps_register(b, reg) ==
    LET yanked == yank_selection(b)
    IN  IF yanked.buf.panicked THEN Applied(yanked.buf, reg)
        ELSE Applied(clear_selection(b), IF yanked.ret = <<>> THEN reg ELSE yanked.ret)

\* The Yank arm of Editor::apply
apply_yank(b, reg) ==
    LET yanked == yank_selection(b)
    IN  IF yanked.buf.panicked THEN Applied(yanked.buf, reg)
        ELSE Applied(clear_selection(b), yanked.ret)

\* The Delete and the Change arm of Editor::apply
apply_delete(b, reg) ==
    LET deleted == delete_selection(b)
    IN  IF deleted.buf.panicked THEN Applied(deleted.buf, reg)
        ELSE Applied(deleted.buf, deleted.ret)

\* Editor::apply
apply(b, reg, cmd) ==
    CASE cmd.name = "MoveLeft" -> Applied(move_left(b), reg)
      [] cmd.name = "MoveRight" -> Applied(move_right(b), reg)
      [] cmd.name = "MoveUp" -> Applied(move_up(b), reg)
      [] cmd.name = "MoveDown" -> Applied(move_down(b), reg)
      [] cmd.name = "MoveWordForward" -> Applied(move_word_forward(b), reg)
      [] cmd.name = "MoveWordBack" -> Applied(move_word_back(b), reg)
      [] cmd.name = "MoveWordEnd" -> Applied(move_word_forward(b), reg)
      [] cmd.name = "MoveLineStart" -> Applied(move_line_start(b), reg)
      [] cmd.name = "MoveLineEnd" -> Applied(move_line_end(b), reg)
      [] cmd.name = "MoveFirstLine" -> Applied(move_first_line(b), reg)
      [] cmd.name = "MoveLastLine" -> Applied(move_last_line(b), reg)
      [] cmd.name = "MoveParagraphForward" -> Applied(move_paragraph_forward(b), reg)
      [] cmd.name = "MoveParagraphBack" -> Applied(move_paragraph_back(b), reg)
      [] cmd.name = "Insert" -> Applied(insert(b, <<cmd.ch>>), reg)
      [] cmd.name = "InsertNewline" -> Applied(insert(b, <<"\n">>), reg)
      [] cmd.name = "DeleteBefore" -> Applied(delete_before(b), reg)
      [] cmd.name = "DeleteCharAtCursor" -> Applied(delete_char_at_cursor(b), reg)
      [] cmd.name = "DeleteLine" -> apply_delete_line(b, reg)
      [] cmd.name = "Yank" -> apply_yank(b, reg)
      [] cmd.name = "Delete" -> apply_delete(b, reg)
      [] cmd.name = "Change" -> apply_delete(b, reg)
      [] cmd.name = "Paste" -> Applied(paste(b, reg), reg)
      [] cmd.name = "StartVisual" -> Applied(start_visual(b), reg)
      [] cmd.name = "StartVisualLine" -> Applied(apply_start_visual_line(b), reg)
      [] cmd.name = "ClearSelection" -> Applied(clear_selection(b), reg)
      [] cmd.name \in {"Undo", "Redo"} -> Applied(b, reg)

\* apply_if_some with an Undo and a Redo that take back the character before
\* the cursor.
apply_if_some_undo_takes_back(b, reg, cmd) ==
    IF cmd = None THEN Applied(b, reg)
    ELSE IF cmd[1].name \in {"Undo", "Redo"} THEN Applied(delete_before(b), reg)
    ELSE apply(b, reg, cmd[1])

\* apply_if_some with an x that puts the character it deletes in the register.
apply_if_some_x_yanks(b, reg, cmd) ==
    IF cmd = None THEN Applied(b, reg)
    ELSE IF cmd[1].name = "DeleteCharAtCursor"
         THEN Applied(delete_char_at_cursor(b),
                      IF cursor_char_idx(b) < Len(b.rope)
                      THEN <<b.rope[cursor_char_idx(b) + 1]>> ELSE reg)
    ELSE apply(b, reg, cmd[1])

\* if let Some(cmd) = cmd { self.apply(cmd); } of Editor::handle_key
apply_if_some(b, reg, cmd) ==
    IF cmd = None THEN Applied(b, reg) ELSE apply(b, reg, cmd[1])

\* ------------------------------------------------------------- EditorPage
\* The files of the vault and the contents a file or an editor may have.
Paths == {"/v/a.md", "/v/b.md"}
Contents == {"", "x"}

\* The most invocations of one backend command the page awaits at a time.
MaxPending == 2

\* What EditorPage has outstanding: changes, the paths the handleContentChange
\* closures handed to the MarkdownEditor captured as state.activeTabPath;
\* reads, the read_file calls handleFileClick awaits, per path; creates, the
\* create_file calls handleNewNoteConfirm awaits.
NoInflight == [changes |-> {}, reads |-> [q \in Paths |-> 0], creates |-> 0]

\* path.split("/").pop() ?? path
file_name(path) == IF path = "/v/a.md" THEN "a.md" ELSE "b.md"

\* interface Tab
Tab(path, name) == [path |-> path, name |-> name]

\* The initial EditorState given to useReducer.
EditorState_initial ==
    [tabs |-> <<>>, activeTabPath |-> None, fileContents |-> [q \in {} |-> ""]]

\* state.tabs.some((tab) => tab.path === path)
has_tab(state, path) == \E i \in 1..Len(state.tabs) : state.tabs[i].path = path

\* { ...fileContents, [path]: content }
with_content(fileContents, path, content) == (path :> content) @@ fileContents

\* const { [path]: _removed, ...rest } = fileContents
without_content(fileContents, path) ==
    [q \in (DOMAIN fileContents) \ {path} |-> fileContents[q]]

\* The close_tab case with an activeTabPath that closing never changes.
reduce_close_tab_keeps_active(state, path) ==
    LET keep(tab) == tab.path # path
    IN  [tabs |-> SelectSeq(state.tabs, keep), activeTabPath |-> state.activeTabPath,
         fileContents |-> without_content(state.fileContents, path)]

\* The close_tab case of editorReducer: a new object of three properties.
reduce_close_tab(state, path) ==
    LET keep(tab) == tab.path # path
        remaining == SelectSeq(state.tabs, keep)
        newActive == IF state.activeTabPath = Some(path)
                     THEN IF remaining # <<>> THEN Some(remaining[Len(remaining)].path)
                          ELSE None
                     ELSE state.activeTabPath
    IN  [tabs |-> remaining, activeTabPath |-> newActive,
         fileContents |-> without_content(state.fileContents, path)]

\* editorReducer with an open_file case that does not look for a tab of the path.
editorReducer_open_file_always_adds(state, action) ==
    CASE action.type = "open_file" ->
            [state EXCEPT
                !.tabs = Append(state.tabs, Tab(action.path, action.name)),
                !.activeTabPath = Some(action.path),
                !.fileContents =
                    with_content(state.fileContents, action.path, action.content)]
      [] action.type = "close_tab" -> reduce_close_tab(state, action.path)
      [] action.type = "activate_tab" -> [state EXCEPT !.activeTabPath = Some(action.path)]
      [] action.type = "update_content" ->
            [state EXCEPT !.fileContents =
                with_content(state.fileContents, action.path, action.content)]

\* editorReducer.  { ...state, k: v } keeps every other property of state.
editorReducer(state, action) ==
    CASE action.type = "open_file" ->
            IF has_tab(state, action.path)
            THEN [state EXCEPT !.activeTabPath = Some(action.path)]
            ELSE [state EXCEPT
                    !.tabs = Append(state.tabs, Tab(action.path, action.name)),
                    !.activeTabPath = Some(action.path),
                    !.fileContents =
                        with_content(state.fileContents, action.path, action.content)]
      [] action.type = "close_tab" -> reduce_close_tab(state, action.path)
      [] action.type = "activate_tab" -> [state EXCEPT !.activeTabPath = Some(action.path)]
      [] action.type = "update_content" ->
            [state EXCEPT !.fileContents =
                with_content(state.fileContents, action.path, action.content)]

\* state.dirtyPaths, read where EditorPage renders TabBar: undefined (None)
\* when the state has no such property.
state_dirtyPaths(state) ==
    IF "dirtyPaths" \in DOMAIN state THEN Some(state.dirtyPaths) ELSE None

\* TabBar shows the dirty dot of a tab: dirtyPaths is a set that has its path.
TabBar_isDirty(dirtyPaths, path) == dirtyPaths # None /\ path \in dirtyPaths[1]

\* ------------------------------------------------------------------ state
VARIABLES
    buffer,         \* Editor.buffer: rope, cursor, selection (and panicked)
    vim,            \* Editor.vim: mode, pending_operator, pending_g
    yank_register,  \* Editor.yank_register
    last_cmd,       \* what the last VimEngine::handle_key call returned
    last_mode,      \* the mode the engine was in when that call began
    last_op,        \* the Buffer method called last, when called directly
    ret,            \* the String that call returned
    snap,           \* the buffer as it was when an insert/delete round trip began
    other,          \* a second Editor given the same keys, when there is one
    page,           \* EditorPage: the EditorState its reducer holds
    disk,           \* the files of the vault: path -> content
    page_action,    \* the last handler of EditorPage that ran, and what it dispatched
    inflight,       \* EditorPage: the calls awaited and the change callbacks handed out
    tab             \* the Tab around the Editor (document, dirty), when there is one

\* The Editor and Buffer of the editing core, and the editor page of the UI.
core_vars == <<buffer, vim, yank_register, last_cmd, last_mode, last_op, ret, snap, other, tab>>
page_vars == <<page, disk, page_action, inflight>>
vars == <<buffer, vim, yank_register, last_cmd, last_mode, last_op, ret, snap, other,
          page, disk, page_action, inflight, tab>>

\* The characters a Key::Char may carry: those VimEngine::handle_normal and
\* handle_visual match, and two they do not match.
KeyChars ==
    {"h", "l", "k", "j", "w", "b", "e", "0", "$", "G", "{", "}", "g", "i", "a",
     "A", "o", "v", "V", "x", "d", "c", "y", "p", "u", " ", "z"}

Keys ==
    {Escape, Backspace, Enter, Left, Right, Up, Down, CtrlR}
        \cup {Char(c) : c \in KeyChars}

\* The buffer and the number of delete_before calls (or the one paste) still to
\* come in the round trip that began there; or the buffer before the last key.
Snap(law, b, left) ==
    Some([law |-> law, rope |-> b.rope, cursor |-> b.cursor,
          selection |-> b.selection, left |-> left])

\* No editor page and no Tab: the specifications of the editing core leave
\* these alone.
PageIdle ==
    /\ page = EditorState_initial
    /\ disk = [q \in Paths |-> ""]
    /\ page_action = None
    /\ inflight = NoInflight
    /\ tab = None

\* Editor::new, for every document of the typed characters and line breaks.
Init ==
    /\ \E text \in SeqsUpTo(TypedChars \cup {"\n"}, EditorMaxLen) : buffer = Buffer_new(text)
    /\ vim = VimEngine_new
    /\ yank_register = <<>>
    /\ last_cmd = None
    /\ last_mode = "Normal"
    /\ last_op = "new"
    /\ ret = <<>>
    /\ snap = None
    /\ other = None
    /\ PageIdle

\* Editor::handle_key(key).  A character typed in Insert mode is one of
\* TypedChars, and no edit grows the document past EditorMaxLen.  Nothing runs after a
\* panic.  snap keeps the buffer as it was when the a of Normal mode was
\* pressed, until the next key.
HandleKey(key) ==
    /\ ~buffer.panicked
    /\ (vim.mode = "Insert" /\ key.kind = "Char") => key.ch \in TypedChars
    /\ \E out \in {vim_handle_key(vim, key)} :
       \E done \in {apply_if_some(buffer, yank_register, out.cmd)} :
           /\ Len(done.buffer.rope) <= EditorMaxLen
           /\ buffer' = done.buffer
           /\ vim' = out.vim
           /\ yank_register' = done.yank_register
           /\ last_cmd' = out.cmd
           /\ last_mode' = vim.mode
           /\ snap' = IF out.vim.mode = "Insert" /\ out.cmd = Some(Cmd("MoveRight"))
                      THEN Snap("append", buffer, 1)
                      ELSE None
    /\ UNCHANGED <<last_op, ret, other, tab, page_vars>>

Next == \E key \in Keys : HandleKey(key)

Spec == Init /\ [][Next]_vars

\* ------------------------------------------- Buffer, its methods called directly
\* Buffer::new, for every document of Chars.
BufferInit ==
    /\ \E text \in SeqsUpTo(Chars, BufferMaxLen) : buffer = Buffer_new(text)
    /\ vim = VimEngine_new
    /\ yank_register = <<>>
    /\ last_cmd = None
    /\ last_mode = "Normal"
    /\ last_op = "new"
    /\ ret = <<>>
    /\ snap = None
    /\ other = None
    /\ PageIdle

\* A call of a Buffer method that returns nothing and takes part in no round trip.
Call(name, b2) ==
    /\ ~buffer.panicked
    /\ \E after \in {b2} : buffer' = after
    /\ last_op' = name
    /\ ret' = <<>>
    /\ snap' = None
    /\ UNCHANGED <<vim, yank_register, last_cmd, last_mode, other, tab, page_vars>>

\* buffer.insert(text): a round trip of Len(text) delete_before calls begins.
CallInsert(text) ==
    /\ ~buffer.panicked
    /\ Len(buffer.rope) + Len(text) <= BufferMaxLen
    /\ buffer' = insert(buffer, text)
    /\ last_op' = "insert"
    /\ ret' = <<>>
    /\ snap' = Snap("insert", buffer, Len(text))
    /\ UNCHANGED <<vim, yank_register, last_cmd, last_mode, other, tab, page_vars>>

\* buffer.delete_before()
CallDeleteBefore ==
    /\ ~buffer.panicked
    /\ buffer' = delete_before(buffer)
    /\ last_op' = "delete_before"
    /\ ret' = <<>>
    /\ snap' = IF snap # None /\ snap[1].law = "insert" /\ snap[1].left > 0
               THEN Some([snap[1] EXCEPT !.left = snap[1].left - 1])
               ELSE None
    /\ UNCHANGED <<vim, yank_register, last_cmd, last_mode, other, tab, page_vars>>

CallDeleteCharAtCursor == Call("delete_char_at_cursor", delete_char_at_cursor(buffer))
CallMoveLeft == Call("move_left", move_left(buffer))
CallMoveRight == Call("move_right", move_right(buffer))
CallMoveUp == Call("move_up", move_up(buffer))
CallMoveDown == Call("move_down", move_down(buffer))
CallMoveLineStart == Call("move_line_start", move_line_start(buffer))
CallMoveLineEnd == Call("move_line_end", move_line_end(buffer))
CallMoveWordForward == Call("move_word_forward", move_word_forward(buffer))
CallMoveWordBack == Call("move_word_back", move_word_back(buffer))
CallMoveFirstLine == Call("move_first_line", move_first_line(buffer))
CallMoveLastLine == Call("move_last_line", move_last_line(buffer))
CallMoveParagraphForward == Call("move_paragraph_forward", move_paragraph_forward(buffer))
CallMoveParagraphBack == Call("move_paragraph_back", move_paragraph_back(buffer))
CallStartVisual == Call("start_visual", start_visual(buffer))
CallUpdateVisualHead == Call("update_visual_head", update_visual_head(buffer))
CallClearSelection == Call("clear_selection", clear_selection(buffer))

\* ret = buffer.yank_selection()
CallYankSelection ==
    /\ ~buffer.panicked
    /\ buffer' = yank_selection(buffer).buf
    /\ last_op' = "yank_selection"
    /\ ret' = yank_selection(buffer).ret
    /\ snap' = None
    /\ UNCHANGED <<vim, yank_register, last_cmd, last_mode, other, tab, page_vars>>

\* ret = buffer.delete_selection(): a round trip of one paste begins.
CallDeleteSelection ==
    /\ ~buffer.panicked
    /\ buffer' = delete_selection(buffer).buf
    /\ last_op' = "delete_selection"
    /\ ret' = delete_selection(buffer).ret
    /\ snap' = Snap("delete_selection", buffer, 1)
    /\ UNCHANGED <<vim, yank_register, last_cmd, last_mode, other, tab, page_vars>>

\* buffer.paste(&ret), of the string the selection call before it returned.
CallPaste ==
    /\ ~buffer.panicked
    /\ last_op \in {"yank_selection", "delete_selection"}
    /\ Len(buffer.rope) + Len(ret) <= BufferMaxLen
    /\ buffer' = paste(buffer, ret)
    /\ last_op' = "paste"
    /\ ret' = <<>>
    /\ snap' = IF snap # None /\ snap[1].law = "delete_selection" /\ snap[1].left = 1
               THEN Some([snap[1] EXCEPT !.left = 0])
               ELSE None
    /\ UNCHANGED <<vim, yank_register, last_cmd, last_mode, other, tab, page_vars>>

BufferNext ==
    \/ \E text \in SeqsUpTo(Chars, MaxInsert) : CallInsert(text)
    \/ CallDeleteBefore
    \/ CallDeleteCharAtCursor
    \/ CallMoveLeft
    \/ CallMoveRight
    \/ CallMoveUp
    \/ CallMoveDown
    \/ CallMoveLineStart
    \/ CallMoveLineEnd
    \/ CallMoveWordForward
    \/ CallMoveWordBack
    \/ CallMoveFirstLine
    \/ CallMoveLastLine
    \/ CallMoveParagraphForward
    \/ CallMoveParagraphBack
    \/ CallStartVisual
    \/ CallUpdateVisualHead
    \/ CallClearSelection
    \/ CallYankSelection
    \/ CallDeleteSelection
    \/ CallPaste

BufferSpec == BufferInit /\ [][BufferNext]_vars

\* --------------------------------------------- two Editors, the same keys
\* An Editor of its own: buffer, vim, yank_register, and what its engine
\* returned last.
Dispatcher(b, vm, reg, cmd) ==
    [buffer |-> b, vim |-> vm, yank_register |-> reg, last_cmd |-> cmd]

\* Editor::new(text1) and Editor::new(text2)
PairInit ==
    /\ \E text1, text2 \in SeqsUpTo(TypedChars \cup {"\n"}, PairMaxLen) :
          /\ buffer = Buffer_new(text1)
          /\ other = Some(Dispatcher(Buffer_new(text2), VimEngine_new, <<>>, None))
    /\ vim = VimEngine_new
    /\ yank_register = <<>>
    /\ last_cmd = None
    /\ last_mode = "Normal"
    /\ last_op = "new"
    /\ ret = <<>>
    /\ snap = None
    /\ PageIdle

\* The rest of Editor::handle_key in both Editors, once each engine has
\* returned: out1 from this Editor's, out2 from the other's.
PairApply(out1, out2) ==
    \E done1 \in {apply_if_some(buffer, yank_register, out1.cmd)} :
    \E done2 \in {apply_if_some(other[1].buffer, other[1].yank_register, out2.cmd)} :
        /\ Len(done1.buffer.rope) <= PairMaxLen
        /\ Len(done2.buffer.rope) <= PairMaxLen
        /\ buffer' = done1.buffer
        /\ vim' = out1.vim
        /\ yank_register' = done1.yank_register
        /\ last_cmd' = out1.cmd
        /\ last_mode' = vim.mode
        /\ other' = Some(Dispatcher(done2.buffer, out2.vim, done2.yank_register, out2.cmd))
        /\ UNCHANGED <<last_op, ret, snap, tab, page_vars>>

\* A handle_key whose engine looks at the document: x on an empty document
\* returns no command.
PairHandleKey_engine_reads_document(key) ==
    /\ ~buffer.panicked
    /\ ~other[1].buffer.panicked
    /\ (key.kind = "Char" /\ "Insert" \in {vim.mode, other[1].vim.mode})
           => key.ch \in TypedChars
    /\ PairApply(IF key = Char("x") /\ buffer.rope = <<>>
                 THEN Out(vim, None) ELSE vim_handle_key(vim, key),
                 IF key = Char("x") /\ other[1].buffer.rope = <<>>
                 THEN Out(other[1].vim, None) ELSE vim_handle_key(other[1].vim, key))

\* handle_key(key) of both Editors.  Nothing runs once either has panicked.
PairHandleKey(key) ==
    /\ ~buffer.panicked
    /\ ~other[1].buffer.panicked
    /\ (key.kind = "Char" /\ "Insert" \in {vim.mode, other[1].vim.mode})
           => key.ch \in TypedChars
    /\ PairApply(vim_handle_key(vim, key), vim_handle_key(other[1].vim, key))

PairNext == \E key \in Keys : PairHandleKey(key)

PairSpec == PairInit /\ [][PairNext]_vars

\* ------------------------------------------ VimEngine, called on its own
\* VimEngine::new, with no Editor around it.
EngineInit ==
    /\ vim = VimEngine_new
    /\ last_cmd = None
    /\ last_mode = "Normal"
    /\ buffer = Buffer_new(<<>>)
    /\ yank_register = <<>>
    /\ last_op = "new"
    /\ ret = <<>>
    /\ snap = None
    /\ other = None
    /\ PageIdle

\* cmd = vm.handle_key(key)
EngineHandleKey(key) ==
    /\ \E out \in {vim_handle_key(vim, key)} :
          /\ vim' = out.vim
          /\ last_cmd' = out.cmd
    /\ last_mode' = vim.mode
    /\ UNCHANGED <<buffer, yank_register, last_op, ret, snap, other, tab, page_vars>>

EngineNext == \E key \in Keys : EngineHandleKey(key)

EngineSpec == EngineInit /\ [][EngineNext]_vars

\* -------------------------------------------- the Tab around the Editor
\* Inline::Text and Block::Paragraph
Text(t) == [kind |-> "Text", text |-> t]
Paragraph(inlines) == [kind |-> "Paragraph", inlines |-> inlines]

\* The lines of text, each without its line break.
text_lines(text) ==
    [i \in 1..len_lines(text) |->
        SelectSeq(rope_line(text, i - 1), LAMBDA ch : ch # "\n")]

\* The event loop of Document::parse over the lines of a text of letters and
\* line breaks: the parser opens a paragraph at a line with text, emits one
\* Text event per line (the SoftBreak between two is dropped by the `_` arm),
\* and closes the paragraph at an empty line or at the end.
RECURSIVE parse_lines(_, _, _)
parse_lines(lines, inline_stack, blocks) ==
    LET closed == IF inline_stack = <<>> THEN blocks
                  ELSE Append(blocks, Paragraph(inline_stack))
    IN  IF lines = <<>> THEN closed
        ELSE IF Head(lines) = <<>> THEN parse_lines(Tail(lines), <<>>, closed)
        ELSE parse_lines(Tail(lines), Append(inline_stack, Text(Head(lines))), blocks)

\* Document::parse: the blocks of the document
Document_parse(text) == parse_lines(text_lines(text), <<>>, <<>>)

\* Tab::new
Tab_new(text) == [document |-> Document_parse(text), dirty |-> FALSE]

\* mark_dirty that forgets to raise the flag.
mark_dirty_forgets(t) == t

\* Tab::mark_dirty
mark_dirty(t) == [t EXCEPT !.dirty = TRUE]

\* Tab::sync_document, given self.editor.buffer_text()
sync_document(t, text) ==
    IF t.dirty THEN [document |-> Document_parse(text), dirty |-> FALSE] ELSE t

\* App with tab: Tab::new(text), for every document of the typed characters
\* and line breaks.
TabInit ==
    /\ \E text \in SeqsUpTo(TypedChars \cup {"\n"}, EditorMaxLen) :
          /\ buffer = Buffer_new(text)
          /\ tab = Some(Tab_new(text))
    /\ vim = VimEngine_new
    /\ yank_register = <<>>
    /\ last_cmd = None
    /\ last_mode = "Normal"
    /\ last_op = "new"
    /\ ret = <<>>
    /\ snap = None
    /\ other = None
    /\ page = EditorState_initial
    /\ disk = [q \in Paths |-> ""]
    /\ page_action = None
    /\ inflight = NoInflight

\* The keyboard handler of App: self.tab.editor.handle_key(k);
\* self.tab.mark_dirty().  Nothing runs after a panic.
AppKey(key) ==
    /\ ~buffer.panicked
    /\ (vim.mode = "Insert" /\ key.kind = "Char") => key.ch \in TypedChars
    /\ \E out \in {vim_handle_key(vim, key)} :
       \E done \in {apply_if_some(buffer, yank_register, out.cmd)} :
           /\ Len(done.buffer.rope) <= EditorMaxLen
           /\ buffer' = done.buffer
           /\ vim' = out.vim
           /\ yank_register' = done.yank_register
           /\ tab' = IF done.buffer.panicked THEN tab ELSE Some(mark_dirty(tab[1]))
    /\ last_op' = "handle_key"
    /\ UNCHANGED <<last_cmd, last_mode, ret, snap, other, page_vars>>

\* WindowEvent::RedrawRequested in the editor: self.tab.sync_document(), then
\* the lines are built from self.tab.document.
Redraw ==
    /\ ~buffer.panicked
    /\ tab' = Some(sync_document(tab[1], buffer.rope))
    /\ last_op' = "redraw"
    /\ UNCHANGED <<buffer, vim, yank_register, last_cmd, last_mode, ret, snap, other,
                   page_vars>>

TabNext ==
    \/ \E key \in Keys : AppKey(key)
    \/ Redraw

TabSpec == TabInit /\ [][TabNext]_vars

\* ------------------------------------------- EditorPage and its handlers
\* dispatch(action), recorded with the handler that made it
Dispatch(handler, action) ==
    /\ page' = editorReducer(page, action)
    /\ page_action' = Some([handler |-> handler, action |-> Some(action)])

\* The handler returned without dispatching.
NoDispatch(handler) ==
    /\ page' = page
    /\ page_action' = Some([handler |-> handler, action |-> None])

\* The render that follows a handler: the MarkdownEditor is handed a
\* handleContentChange closure over the activeTabPath of the new state.
Rendered(changes) ==
    IF page'.activeTabPath = None THEN changes
    ELSE changes \cup {page'.activeTabPath[1]}

\* handleFileClick(path), for a file of the tree, up to its await: a tab of
\* the path is activated, or read_file is invoked.
HandleFileClick(path) ==
    /\ IF has_tab(page, path)
       THEN /\ Dispatch("handleFileClick", [type |-> "activate_tab", path |-> path])
            /\ inflight' = [inflight EXCEPT !.changes = Rendered(@)]
       ELSE /\ inflight.reads[path] < MaxPending
            /\ NoDispatch("handleFileClick")
            /\ inflight' = [inflight EXCEPT !.reads[path] = @ + 1]
    /\ UNCHANGED <<disk, core_vars>>

\* The rest of handleFileClick(path), once read_file has returned the content
\* of the file (ok) or thrown.
ReadFileDone(path, ok) ==
    /\ inflight.reads[path] > 0
    /\ IF ok
       THEN Dispatch("handleFileClick",
                     [type |-> "open_file", path |-> path, name |-> file_name(path),
                      content |-> disk[path]])
       ELSE NoDispatch("read_file failed")
    /\ inflight' = [inflight EXCEPT !.reads[path] = @ - 1, !.changes = Rendered(@)]
    /\ UNCHANGED <<disk, core_vars>>

\* handleNewNoteConfirm(), up to its await: create_file is invoked.
HandleNewNoteConfirm ==
    /\ inflight.creates < MaxPending
    /\ NoDispatch("handleNewNoteConfirm")
    /\ inflight' = [inflight EXCEPT !.creates = @ + 1]
    /\ UNCHANGED <<disk, core_vars>>

\* The rest of handleNewNoteConfirm(), once create_file has returned the path
\* of the file it made (ok) or thrown.
CreateFileDone(path, ok) ==
    /\ inflight.creates > 0
    /\ IF ok
       THEN /\ Dispatch("handleNewNoteConfirm",
                        [type |-> "open_file", path |-> path, name |-> file_name(path),
                         content |-> ""])
            /\ disk' = [disk EXCEPT ![path] = ""]
       ELSE /\ NoDispatch("create_file failed")
            /\ disk' = disk
    /\ inflight' = [inflight EXCEPT !.creates = @ - 1, !.changes = Rendered(@)]
    /\ UNCHANGED core_vars

\* handleContentChange(content), called by the MarkdownEditor of the active
\* tab with the closure of the latest render.
HandleContentChange(content) ==
    /\ IF page.activeTabPath = None
       THEN NoDispatch("handleContentChange")
       ELSE Dispatch("handleContentChange",
                     [type |-> "update_content", path |-> page.activeTabPath[1],
                      content |-> content])
    /\ inflight' = [inflight EXCEPT !.changes = Rendered(@)]
    /\ UNCHANGED <<disk, core_vars>>

\* handleContentChange(content) of an earlier render, which captured path as
\* state.activeTabPath, called by the MarkdownEditor after later dispatches.
HandleContentChangeStale(path, content) ==
    /\ path \in inflight.changes
    /\ page.activeTabPath # Some(path)
    /\ Dispatch("handleContentChange (stale)",
                [type |-> "update_content", path |-> path, content |-> content])
    /\ inflight' = [inflight EXCEPT !.changes = Rendered(@)]
    /\ UNCHANGED <<disk, core_vars>>

\* handleTabClick(path), from the button of a tab
HandleTabClick(path) ==
    /\ has_tab(page, path)
    /\ Dispatch("handleTabClick", [type |-> "activate_tab", path |-> path])
    /\ inflight' = [inflight EXCEPT !.changes = Rendered(@)]
    /\ UNCHANGED <<disk, core_vars>>

\* handleTabClose(path), from the close button of a tab
HandleTabClose(path) ==
    /\ has_tab(page, path)
    /\ Dispatch("handleTabClose", [type |-> "close_tab", path |-> path])
    /\ inflight' = [inflight EXCEPT !.changes = Rendered(@)]
    /\ UNCHANGED <<disk, core_vars>>

\* saveRef.current(), on Cmd/Ctrl+S; write_file succeeds (ok) or throws.
\* Nothing is dispatched either way.
Save(ok) ==
    /\ IF page.activeTabPath = None
       THEN disk' = disk /\ NoDispatch("save")
       ELSE IF page.activeTabPath[1] \notin DOMAIN page.fileContents
            THEN disk' = disk /\ NoDispatch("save")
            ELSE /\ disk' = IF ok
                            THEN [disk EXCEPT ![page.activeTabPath[1]] =
                                     page.fileContents[page.activeTabPath[1]]]
                            ELSE disk
                 /\ page' = page
                 /\ page_action' = Some([handler |-> IF ok THEN "save" ELSE "save failed",
                                         action |-> None])
    /\ UNCHANGED <<inflight, core_vars>>

PageNext ==
    \/ \E path \in Paths : HandleFileClick(path)
    \/ \E path \in Paths, ok \in BOOLEAN : ReadFileDone(path, ok)
    \/ HandleNewNoteConfirm
    \/ \E path \in Paths, ok \in BOOLEAN : CreateFileDone(path, ok)
    \/ \E content \in Contents : HandleContentChange(content)
    \/ \E path \in Paths, content \in Contents : HandleContentChangeStale(path, content)
    \/ \E path \in Paths : HandleTabClick(path)
    \/ \E path \in Paths : HandleTabClose(path)
    \/ \E ok \in BOOLEAN : Save(ok)

\* The editor page as useReducer creates it, over every vault; the editing
\* core is not part of it.
PageInit ==
    /\ page = EditorState_initial
    /\ disk \in [Paths -> Contents]
    /\ page_action = None
    /\ inflight = NoInflight
    /\ buffer = Buffer_new(<<>>)
    /\ vim = VimEngine_new
    /\ yank_register = <<>>
    /\ last_cmd = None
    /\ last_mode = "Normal"
    /\ last_op = "new"
    /\ ret = <<>>
    /\ snap = None
    /\ other = None
    /\ tab = None

PageSpec == PageInit /\ [][PageNext]_vars

\* ----------------------------------------------------------- properties
\* The number of characters of line line_idx of r, its line break excluded.
line_length(r, line_idx) ==
    LET chars == rope_line(r, line_idx)
    IN  IF chars # <<>> /\ chars[Len(chars)] = "\n" THEN Len(chars) - 1 ELSE Len(chars)

\* The commands that only move the cursor.
Motions ==
    {Cmd(m) : m \in {"MoveLeft", "MoveRight", "MoveUp", "MoveDown", "MoveWordForward",
                     "MoveWordBack", "MoveWordEnd", "MoveLineStart", "MoveLineEnd",
                     "MoveFirstLine", "MoveLastLine", "MoveParagraphForward",
                     "MoveParagraphBack"}}

\* p is the position of a character of r.
OnCharacter(r, p) == line_ok(r, p.line) /\ p.col < Len(rope_line(r, p.line))

\* The positions in lexicographic order.
Before(p, q) == p.line < q.line \/ (p.line = q.line /\ p.col <= q.col)

\* The characters of r from the smaller of the positions a and h to the larger,
\* both included.
InclusiveText(r, a, h) ==
    LET lo == IF Before(a, h) THEN a ELSE h
        hi == IF Before(a, h) THEN h ELSE a
    IN  SubSeq(r, line_to_char(r, lo.line) + lo.col + 1, line_to_char(r, hi.line) + hi.col + 1)

\* C1: after every key the cursor column is within the bound of the mode:
\* at most max(line_length - 1, 0) in Normal and Visual, at most line_length in
\* Insert, line_length counting the characters of the line without its line break.
C1_ColumnWithinModeBound ==
    (~buffer.panicked /\ line_ok(buffer.rope, buffer.cursor.line)) =>
        LET len == line_length(buffer.rope, buffer.cursor.line)
        IN  IF vim.mode = "Insert"
            THEN buffer.cursor.col <= len
            ELSE buffer.cursor.col <= (IF len > 0 THEN len - 1 ELSE 0)

\* C2: after every key the dispatcher handled, 0 <= cursor.line < line_count().
C2_CursorLineInDocument ==
    ~buffer.panicked =>
        (0 <= buffer.cursor.line /\ buffer.cursor.line < line_count(buffer))

\* C2 witness: delete-line was applied to the last of several lines and the
\* cursor is on the line that is now the last one.
C2_DeletedLastLine ==
    /\ ~buffer.panicked
    /\ last_cmd = Some(Cmd("DeleteLine"))
    /\ line_count(buffer) >= 2
    /\ buffer.cursor.line = line_count(buffer) - 1

\* C3: no key sequence makes an operation fail: every index and range handed
\* to the rope lies inside the document.
C3_NoOperationFails == ~buffer.panicked

\* C4: in Normal mode with d pending and nothing else, any key other than d
\* leaves text, cursor and register unchanged, the mode Normal and no operator
\* pending.
C4_OperatorCancelled ==
    [][\A key \in Keys \ {Char("d")} :
          (/\ vim = [mode |-> "Normal", pending_operator |-> Some("d"), pending_g |-> FALSE]
           /\ HandleKey(key))
          => (/\ buffer'.rope = buffer.rope
              /\ buffer'.cursor = buffer.cursor
              /\ yank_register' = yank_register
              /\ vim' = VimEngine_new)]_vars

\* C5: d d on a line that has a line break removes exactly that line with its
\* line break, puts the removed line and its line break into the register and
\* leaves the cursor at column 0.
C5_DeleteLineRemovesExactlyTheLine ==
    [][(/\ vim = [mode |-> "Normal", pending_operator |-> Some("d"), pending_g |-> FALSE]
        /\ line_length(buffer.rope, buffer.cursor.line)
               < Len(rope_line(buffer.rope, buffer.cursor.line))
        /\ HandleKey(Char("d")))
       => (/\ ~buffer'.panicked
           /\ buffer'.rope =
                rope_remove(buffer.rope, line_to_char(buffer.rope, buffer.cursor.line),
                            line_to_char(buffer.rope, buffer.cursor.line + 1))
           /\ yank_register' = rope_line(buffer.rope, buffer.cursor.line)
           /\ buffer'.cursor.col = 0)]_vars

\* C6: yank_selection() returns the characters from the smaller of anchor and
\* head to the larger, both included, and the empty string with no selection.
C6_YankIsInclusiveRange ==
    (~buffer.panicked /\ last_op = "yank_selection") =>
        IF buffer.selection = NoSelection THEN ret = <<>>
        ELSE (/\ OnCharacter(buffer.rope, buffer.selection[1].anchor)
              /\ OnCharacter(buffer.rope, buffer.selection[1].head))
             => ret = InclusiveText(buffer.rope, buffer.selection[1].anchor,
                                    buffer.selection[1].head)

\* C7: delete_selection() removes what yank_selection() returned just before,
\* and pasting it at the cursor delete_selection() left restores the text.
C7_DeleteThenPasteRestores ==
    [][/\ (CallDeleteSelection /\ ~buffer'.panicked)
            => (/\ ret' = yank_selection(buffer).ret
                /\ Len(buffer'.rope) = Len(buffer.rope) - Len(ret'))
       /\ (/\ CallPaste
           /\ ~buffer'.panicked
           /\ snap' # None
           /\ snap'[1].selection # NoSelection
           /\ OnCharacter(snap'[1].rope, snap'[1].selection[1].anchor)
           /\ OnCharacter(snap'[1].rope, snap'[1].selection[1].head))
            => buffer'.rope = snap'[1].rope]_vars

\* C8: in Visual mode, after a motion key the head of the selection is the
\* cursor and the anchor is where it was.
C8_HeadFollowsCursor ==
    [][\A key \in Keys :
          (/\ vim.mode = "Visual"
           /\ HandleKey(key)
           /\ ~buffer'.panicked
           /\ last_cmd' # None
           /\ last_cmd'[1] \in Motions)
          => (/\ buffer'.selection # NoSelection
              /\ buffer'.selection[1].head = buffer'.cursor
              /\ buffer'.selection[1].anchor = buffer.selection[1].anchor)]_vars

\* C9: in Visual mode y puts the inclusive text between the anchor and the
\* cursor into the register, clears the selection, returns to Normal and leaves
\* the text unchanged.
C9_VisualYank ==
    [][(/\ vim.mode = "Visual"
        /\ buffer.selection # NoSelection
        /\ OnCharacter(buffer.rope, buffer.cursor)
        /\ HandleKey(Char("y"))
        /\ ~buffer'.panicked)
       => (/\ yank_register' =
                InclusiveText(buffer.rope, buffer.selection[1].anchor, buffer.cursor)
           /\ buffer'.selection = NoSelection
           /\ vim'.mode = "Normal"
           /\ buffer'.rope = buffer.rope)]_vars

\* C10: insert(S) followed by Len(S) calls of delete_before() restores the
\* text and the cursor, from every cursor position inside the document.
C10_InsertDeleteInverse ==
    (/\ ~buffer.panicked
     /\ snap # None
     /\ snap[1].law = "insert"
     /\ snap[1].left = 0
     /\ line_ok(snap[1].rope, snap[1].cursor.line)
     /\ snap[1].cursor.col <= line_length(snap[1].rope, snap[1].cursor.line))
    => (buffer.rope = snap[1].rope /\ buffer.cursor = snap[1].cursor)

\* The cursor of b is on a line of the document, at a character of it or right
\* after its last one.
CursorInDocument(b) ==
    /\ line_ok(b.rope, b.cursor.line)
    /\ b.cursor.col <= line_length(b.rope, b.cursor.line)

\* C11: delete_before() at column 0 of a line i > 0 removes the line break of
\* line i-1 and leaves the cursor on line i-1 at the length line i-1 had; at
\* (0,0) it changes nothing; otherwise it removes the character before the
\* cursor and decreases the column by one.
C11_DeleteBeforeJoinsAtFormerLength ==
    [][(CallDeleteBefore /\ CursorInDocument(buffer)) =>
          IF buffer.cursor = Cursor(0, 0)
          THEN buffer'.rope = buffer.rope /\ buffer'.cursor = buffer.cursor
          ELSE /\ ~buffer'.panicked
               /\ buffer'.rope = rope_remove(buffer.rope, cursor_char_idx(buffer) - 1,
                                             cursor_char_idx(buffer))
               /\ buffer'.cursor =
                    IF buffer.cursor.col = 0
                    THEN Cursor(buffer.cursor.line - 1,
                                line_length(buffer.rope, buffer.cursor.line - 1))
                    ELSE Cursor(buffer.cursor.line, buffer.cursor.col - 1)]_vars

\* C12: in Normal mode x on a line that has no characters (the empty document,
\* an empty line between others, an empty last line) changes neither the text,
\* nor the line count, nor the cursor.
C12_DeleteCharOnEmptyLineIsNoop ==
    [][(/\ vim.mode = "Normal"
        /\ CursorInDocument(buffer)
        /\ line_length(buffer.rope, buffer.cursor.line) = 0
        /\ HandleKey(Char("x")))
       => (/\ ~buffer'.panicked
           /\ buffer'.rope = buffer.rope
           /\ line_count(buffer') = line_count(buffer)
           /\ buffer'.cursor = buffer.cursor)]_vars

\* The smaller of the positions a and h in lexicographic order.
LowerEndpoint(a, h) == IF Before(a, h) THEN a ELSE h

\* C13: for a selection in either order delete_selection() returns the
\* inclusive-range text, which it removes, leaves the cursor at the lower
\* endpoint and no selection; with no selection it returns the empty string
\* and changes neither text nor cursor.
C13_DeleteSelectionInclusive ==
    [][CallDeleteSelection =>
          IF buffer.selection = NoSelection
          THEN ret' = <<>> /\ buffer'.rope = buffer.rope /\ buffer'.cursor = buffer.cursor
          ELSE (/\ OnCharacter(buffer.rope, buffer.selection[1].anchor)
                /\ OnCharacter(buffer.rope, buffer.selection[1].head))
               => (/\ ~buffer'.panicked
                   /\ ret' = InclusiveText(buffer.rope, buffer.selection[1].anchor,
                                           buffer.selection[1].head)
                   /\ Len(buffer'.rope) = Len(buffer.rope) - Len(ret')
                   /\ rope_insert(buffer'.rope,
                                  cursor_char_idx([buffer EXCEPT !.cursor =
                                      LowerEndpoint(buffer.selection[1].anchor,
                                                    buffer.selection[1].head)]),
                                  ret') = buffer.rope
                   /\ buffer'.cursor = LowerEndpoint(buffer.selection[1].anchor,
                                                     buffer.selection[1].head)
                   /\ buffer'.selection = NoSelection)]_vars

\* C14: from Normal mode with the cursor on a character ch, a and then a
\* printable character c leave Insert mode with c inserted immediately after
\* ch: c goes in at the offset of ch plus one.
C14_AppendInsertsAfterCursorChar ==
    [][\A c \in TypedChars :
          (/\ snap # None
           /\ snap[1].law = "append"
           /\ line_ok(snap[1].rope, snap[1].cursor.line)
           /\ snap[1].cursor.col < line_length(snap[1].rope, snap[1].cursor.line)
           /\ HandleKey(Char(c)))
          => (/\ ~buffer'.panicked
              /\ vim'.mode = "Insert"
              /\ cursor_char_idx(buffer) =
                    line_to_char(snap[1].rope, snap[1].cursor.line) + snap[1].cursor.col + 1
              /\ buffer'.rope = rope_insert(snap[1].rope, cursor_char_idx(buffer), <<c>>))]_vars

\* The keys the match of handle_normal has an arm for, the `_` arm aside.
NormalTable ==
    {Left, Right, Up, Down, CtrlR}
        \cup {Char(c) : c \in {"h", "l", "k", "j", "w", "b", "e", "0", "$", "G", "{", "}",
                               "g", "i", "a", "A", "o", "v", "V", "x", "d", "c", "y", "p",
                               "u"}}

\* The keys the match of handle_insert has an arm for, the `_` arm aside.
InsertTable == {Escape, Backspace, Enter} \cup {k \in Keys : k.kind = "Char"}

\* The keys the match of handle_visual has an arm for, the `_` arm aside.
VisualTable ==
    {Escape, Left, Right, Up, Down}
        \cup {Char(c) : c \in {"h", "l", "k", "j", "d", "x", "y", "c"}}

\* The key table of a mode.
KeyTable(mode) ==
    CASE mode = "Normal" -> NormalTable
      [] mode = "Insert" -> InsertTable
      [] mode = "Visual" -> VisualTable

\* C15: in every mode and every pending state a key the table of the mode does
\* not match emits no command and leaves no pending operator and no pending g.
C15_UnmatchedKeyClearsPending ==
    [][\A key \in Keys \ KeyTable(vim.mode) :
          HandleKey(key)
          => (/\ last_cmd' = None
              /\ vim'.pending_operator = None
              /\ ~vim'.pending_g)]_vars

\* C16: whenever the engine is in Normal mode, whatever keys came before, i
\* puts it in Insert mode, emits no command and leaves text, cursor, selection
\* and register unchanged.
C16_InsertKeyEntersInsert ==
    [][(vim.mode = "Normal" /\ HandleKey(Char("i")))
       => (/\ vim'.mode = "Insert"
           /\ last_cmd' = None
           /\ buffer' = buffer
           /\ yank_register' = yank_register)]_vars

\* C16, amended: whenever the engine is in Normal mode with no g pending,
\* whatever keys came before, i puts it in Insert mode, emits no command and
\* leaves text, cursor, selection and register unchanged.
C16_InsertKeyEntersInsertUnlessGo ==
    [][(vim.mode = "Normal" /\ ~vim.pending_g /\ HandleKey(Char("i")))
       => (/\ vim'.mode = "Insert"
           /\ last_cmd' = None
           /\ buffer' = buffer
           /\ yank_register' = yank_register)]_vars

\* C16 witness: i was pressed in Normal mode after a d, and the engine is in
\* Insert mode, no command emitted.
C16_InsertEnteredAfterOperator ==
    /\ last_mode = "Normal"
    /\ vim.mode = "Insert"
    /\ last_cmd = None
    /\ vim.pending_operator = Some("d")

\* C17: whenever the engine is in Insert mode, Escape puts it in Normal mode,
\* emits no command and leaves text, cursor and register unchanged.
C17_EscapeLeavesInsert ==
    [][(vim.mode = "Insert" /\ HandleKey(Escape))
       => (/\ vim'.mode = "Normal"
           /\ last_cmd' = None
           /\ buffer'.rope = buffer.rope
           /\ buffer'.cursor = buffer.cursor
           /\ yank_register' = yank_register)]_vars

\* C17 witness: Escape was pressed in Insert mode with the cursor behind the
\* last character of its line, and the cursor is still there.
C17_EscapedAfterTyping ==
    /\ last_mode = "Insert"
    /\ vim.mode = "Normal"
    /\ last_cmd = None
    /\ ~buffer.panicked
    /\ buffer.cursor.col > 0
    /\ buffer.cursor.col = line_length(buffer.rope, buffer.cursor.line)

\* C18: whenever the engine is in Normal mode, v puts it in Visual mode and
\* creates a selection whose anchor and head are the cursor, without changing
\* text or cursor.
C18_VisualKeyStartsSelection ==
    [][(vim.mode = "Normal" /\ HandleKey(Char("v")))
       => (/\ vim'.mode = "Visual"
           /\ buffer'.selection = Some(Selection(buffer.cursor, buffer.cursor))
           /\ buffer'.rope = buffer.rope
           /\ buffer'.cursor = buffer.cursor)]_vars

\* C18, amended: whenever the engine is in Normal mode with no g pending, v
\* puts it in Visual mode and creates a selection whose anchor and head are
\* the cursor, without changing text or cursor.
C18_VisualKeyStartsSelectionUnlessGo ==
    [][(vim.mode = "Normal" /\ ~vim.pending_g /\ HandleKey(Char("v")))
       => (/\ vim'.mode = "Visual"
           /\ buffer'.selection = Some(Selection(buffer.cursor, buffer.cursor))
           /\ buffer'.rope = buffer.rope
           /\ buffer'.cursor = buffer.cursor)]_vars

\* C18 witness: v was pressed away from the start of the document, and the
\* selection is the cursor's position alone.
C18_SelectionStartedAwayFromOrigin ==
    /\ last_mode = "Normal"
    /\ last_cmd = Some(Cmd("StartVisual"))
    /\ vim.mode = "Visual"
    /\ buffer.cursor # Cursor(0, 0)
    /\ buffer.selection = Some(Selection(buffer.cursor, buffer.cursor))

\* C19: p in Normal mode inserts the register at the offset of the cursor and
\* leaves the register unchanged.
C19_PasteInsertsRegister ==
    [][(vim.mode = "Normal" /\ HandleKey(Char("p")))
       => (/\ ~buffer'.panicked
           /\ buffer'.rope = rope_insert(buffer.rope, cursor_char_idx(buffer), yank_register)
           /\ yank_register' = yank_register)]_vars

\* C19, amended: p in Normal mode with no g pending inserts the register at
\* the offset of the cursor and leaves the register unchanged.
C19_PasteInsertsRegisterUnlessGo ==
    [][(vim.mode = "Normal" /\ ~vim.pending_g /\ HandleKey(Char("p")))
       => (/\ ~buffer'.panicked
           /\ buffer'.rope = rope_insert(buffer.rope, cursor_char_idx(buffer), yank_register)
           /\ yank_register' = yank_register)]_vars

\* C19 witness: a register that is not empty was pasted into a document that
\* was not empty.
C19_PastedIntoText ==
    /\ last_mode = "Normal"
    /\ last_cmd = Some(Cmd("Paste"))
    /\ yank_register # <<>>
    /\ Len(buffer.rope) > Len(yank_register)
    /\ ~buffer.panicked

C21_UndoRedoNoEffect ==
    [][\A key \in {Char("u"), CtrlR} :
          (vim.mode = "Normal" /\ HandleKey(key))
          => (/\ buffer' = buffer
              /\ yank_register' = yank_register
              /\ vim'.mode = vim.mode)]_vars

\* C21 witness: Undo or Redo was applied to a document that has text, with the
\* cursor behind a character and a register that is not empty.
C21_UndoAppliedAfterEdits ==
    /\ last_cmd # None
    /\ last_cmd[1].name \in {"Undo", "Redo"}
    /\ ~buffer.panicked
    /\ buffer.rope # <<>>
    /\ buffer.cursor.col > 0
    /\ yank_register # <<>>

\* C22: update_content for an open file puts its path into the dirty set the
\* tab bar reads; after a successful save the file is not dirty; and a file
\* becomes dirty through update_content only.
C22_DirtyFollowsEdits ==
    [][/\ \A content \in Contents :
             (HandleContentChange(content) /\ page.activeTabPath # None)
             => TabBar_isDirty(state_dirtyPaths(page'), page.activeTabPath[1])
       /\ (Save(TRUE) /\ page.activeTabPath # None)
             => ~TabBar_isDirty(state_dirtyPaths(page'), page.activeTabPath[1])
       /\ \A path \in Paths :
             (/\ TabBar_isDirty(state_dirtyPaths(page'), path)
              /\ ~TabBar_isDirty(state_dirtyPaths(page), path))
             => (/\ page.activeTabPath = Some(path)
                 /\ \E content \in Contents : HandleContentChange(content))]_vars

\* The command the repeated operator key emits.
RepeatCommand(c) == IF c = "d" THEN Cmd("DeleteLine") ELSE Cmd("Yank")

\* The engine in Normal mode with the operator key c pending and no g pending.
OperatorPending(c) == [mode |-> "Normal", pending_operator |-> Some(c), pending_g |-> FALSE]

\* C23: from Normal mode with nothing pending the first d (y) emits no command,
\* changes nothing in the buffer and sets the marker; the same key again emits
\* delete-line (yank) and clears the marker, so that the engine is again in
\* Normal mode with nothing pending and a third key only sets the marker.
C23_RepeatedOperatorKey ==
    [][\A c \in {"d", "y"} :
          /\ (vim = VimEngine_new /\ HandleKey(Char(c)))
                => (/\ last_cmd' = None
                    /\ buffer' = buffer
                    /\ yank_register' = yank_register
                    /\ vim' = OperatorPending(c))
          /\ (vim = OperatorPending(c) /\ HandleKey(Char(c)))
                => (/\ last_cmd' = Some(RepeatCommand(c))
                    /\ vim' = VimEngine_new)]_vars

\* C23 witness: the second d emitted delete-line on a document of several
\* lines, and nothing is pending.
C23_SecondKeyEmitted ==
    /\ last_cmd = Some(Cmd("DeleteLine"))
    /\ vim = VimEngine_new
    /\ ~buffer.panicked
    /\ buffer.rope # <<>>

\* C24: in Normal mode a g emits nothing and sets the pending-g marker; the
\* next key always clears it: a g emits jump-to-first-line and the cursor
\* becomes (0,0), any other key emits no command.  Neither key touches the
\* pending-operator marker.
C24_GoPrefix ==
    [][\A key \in Keys :
          /\ (vim.mode = "Normal" /\ ~vim.pending_g /\ key = Char("g") /\ HandleKey(key))
                => (/\ last_cmd' = None
                    /\ vim' = [vim EXCEPT !.pending_g = TRUE]
                    /\ buffer' = buffer)
          /\ (vim.mode = "Normal" /\ vim.pending_g /\ HandleKey(key))
                => (/\ vim' = [vim EXCEPT !.pending_g = FALSE]
                    /\ IF key = Char("g")
                       THEN /\ last_cmd' = Some(Cmd("MoveFirstLine"))
                            /\ buffer'.cursor = Cursor(0, 0)
                            /\ buffer'.rope = buffer.rope
                       ELSE /\ last_cmd' = None
                            /\ buffer' = buffer)]_vars

\* C24 witness: g g was pressed with an operator pending on a document of
\* several lines; the cursor is at (0,0) and the operator is still pending.
C24_JumpedWithOperatorPending ==
    /\ last_cmd = Some(Cmd("MoveFirstLine"))
    /\ vim = OperatorPending("d")
    /\ buffer.cursor = Cursor(0, 0)
    /\ line_count(buffer) >= 2

\* C25: in Visual mode d or x deletes the selection into the register and
\* returns to Normal; c does the same and leaves the engine in Insert; the
\* cursor is where the selection began and the buffer has no selection.
C25_VisualDeleteAndChange ==
    [][\A key \in {Char("d"), Char("x"), Char("c")} :
          (/\ vim.mode = "Visual"
           /\ buffer.selection # NoSelection
           /\ HandleKey(key))
          => (/\ ~buffer'.panicked
              /\ yank_register' = InclusiveText(buffer.rope, buffer.selection[1].anchor,
                                                 buffer.selection[1].head)
              /\ rope_insert(buffer'.rope, cursor_char_idx(buffer'), yank_register')
                    = buffer.rope
              /\ buffer'.cursor = LowerEndpoint(buffer.selection[1].anchor,
                                                buffer.selection[1].head)
              /\ buffer'.selection = NoSelection
              /\ vim'.mode = IF key = Char("c") THEN "Insert" ELSE "Normal")]_vars

\* The single keys that emit a motion command in Normal mode.
MotionKeys ==
    {Left, Right, Up, Down}
        \cup {Char(c) : c \in {"h", "j", "k", "l", "w", "b", "e", "0", "$", "G", "{", "}"}}

\* C26: every key that emits a motion command in Normal mode emits the same
\* command in Visual mode, and so does g g; the mode stays Visual.
C26_VisualMotionsAsNormal ==
    [][/\ \A key \in MotionKeys :
             (vim.mode = "Visual" /\ HandleKey(key))
             => (/\ last_cmd' = handle_normal(VimEngine_new, key).cmd
                 /\ last_cmd'[1] \in Motions
                 /\ vim'.mode = "Visual")
       /\ (vim.mode = "Visual" /\ HandleKey(Char("g")))
             => (/\ vim'.mode = "Visual"
                 /\ IF vim.pending_g
                    THEN last_cmd' = Some(Cmd("MoveFirstLine")) /\ ~vim'.pending_g
                    ELSE last_cmd' = None /\ vim'.pending_g)]_vars

\* C27: in Insert mode every key other than Escape leaves the mode Insert;
\* every printable character, the command letters of Normal mode included,
\* emits the insertion of that character; Backspace emits delete-before-cursor
\* and Enter emits insert-newline.
C27_InsertModeKeys ==
    [][\A key \in Keys :
          (vim.mode = "Insert" /\ EngineHandleKey(key))
          => (/\ key # Escape => vim'.mode = "Insert"
              /\ (key.kind = "Char" /\ key # CtrlR) => last_cmd' = Some(InsertCmd(key.ch))
              /\ key = Backspace => last_cmd' = Some(Cmd("DeleteBefore"))
              /\ key = Enter => last_cmd' = Some(Cmd("InsertNewline")))]_vars

\* C27 witness: a command letter of Normal mode was typed in Insert mode and
\* came out as the insertion of that letter.
C27_CommandLetterInserted ==
    /\ last_mode = "Insert"
    /\ vim.mode = "Insert"
    /\ last_cmd # None
    /\ last_cmd[1].name = "Insert"
    /\ last_cmd[1].ch \in {"d", "y", "g", "v", "x", "p", "i", "u"}

\* The number of line breaks of text.
Newlines(text) == Cardinality({i \in 1..Len(text) : text[i] = "\n"})

\* The number of characters of text after its last line break.
AfterLastNewline(text) ==
    Len(text) - CHOOSE i \in 1..Len(text) :
                    text[i] = "\n" /\ \A j \in (i + 1)..Len(text) : text[j] # "\n"

\* C28: insert(text) with the cursor at character offset p makes the document
\* old[0..p) + text + old[p..) and leaves the cursor right past the inserted
\* text: its line grows by the number of newlines of text, and its column is
\* the number of characters after the last newline of text, or the old column
\* plus the length of text when text has no newline.
C28_InsertAtCursor ==
    [][(last_op' = "insert" /\ CursorInDocument(buffer)) =>
       \A text \in SeqsUpTo(Chars, MaxInsert) :
          CallInsert(text)
          => LET p == cursor_char_idx(buffer)
                 old == buffer.rope
             IN  /\ ~buffer'.panicked
                 /\ buffer'.rope = SubSeq(old, 1, p) \o text \o SubSeq(old, p + 1, Len(old))
                 /\ buffer'.cursor.line = buffer.cursor.line + Newlines(text)
                 /\ buffer'.cursor.col = IF Newlines(text) = 0
                                         THEN buffer.cursor.col + Len(text)
                                         ELSE AfterLastNewline(text)
                 /\ cursor_char_idx(buffer') = p + Len(text)
                 /\ buffer'.selection = buffer.selection]_vars

\* C28 witness: text with a newline was inserted in the middle of a document,
\* and the cursor went to the line after.
C28_InsertedNewlineInside ==
    /\ last_op = "insert"
    /\ snap # None
    /\ snap[1].left = 2
    /\ snap[1].rope # <<>>
    /\ snap[1].cursor.col > 0
    /\ buffer.cursor.line = snap[1].cursor.line + 1
    /\ Len(buffer.rope) = Len(snap[1].rope) + 2
    /\ ~buffer.panicked

\* The column move_up and move_down are to leave on line dest: the previous
\* column, or the last character of dest when the previous column is past it.
ClampedColumn(b, dest) ==
    Min(b.cursor.col,
        IF line_length(b.rope, dest) > 0 THEN line_length(b.rope, dest) - 1 ELSE 0)

\* C29: move_up() on line 0 and move_down() on the last line change nothing;
\* otherwise the line changes by one and the column becomes the smaller of
\* the previous column and the length of the destination line, its
\* terminator excluded, minus one (0 for an empty line); the text never
\* changes.
C29_VerticalMoves ==
    [][/\ CallMoveUp
          => (/\ buffer'.rope = buffer.rope
              /\ IF buffer.cursor.line = 0
                 THEN buffer' = buffer
                 ELSE /\ ~buffer'.panicked
                      /\ buffer'.cursor.line = buffer.cursor.line - 1
                      /\ buffer'.cursor.col = ClampedColumn(buffer, buffer.cursor.line - 1))
       /\ CallMoveDown
          => (/\ buffer'.rope = buffer.rope
              /\ IF buffer.cursor.line + 1 >= line_count(buffer)
                 THEN buffer' = buffer
                 ELSE /\ ~buffer'.panicked
                      /\ buffer'.cursor.line = buffer.cursor.line + 1
                      /\ buffer'.cursor.col = ClampedColumn(buffer, buffer.cursor.line + 1))]_vars

\* The characters of the line of the cursor of b, its terminator excluded.
CursorLine(b) == SubSeq(rope_line(b.rope, b.cursor.line), 1, line_length(b.rope, b.cursor.line))

\* The columns after col where a word of the line of the cursor of b starts,
\* a word being a maximal run of alphanumeric characters.
WordStartsAfter(b, col) ==
    {j \in (col + 1)..(Len(CursorLine(b)) - 1) :
        is_alphanumeric(CursorLine(b)[j + 1]) /\ ~is_alphanumeric(CursorLine(b)[j])}

\* Where w is to land: the first word start after the cursor, or the last
\* character of the line when no word starts after the cursor.
WordForwardTarget(b) ==
    IF WordStartsAfter(b, b.cursor.col) # {}
    THEN CHOOSE j \in WordStartsAfter(b, b.cursor.col) :
             \A k \in WordStartsAfter(b, b.cursor.col) : j <= k
    ELSE IF Len(CursorLine(b)) > 0 THEN Len(CursorLine(b)) - 1 ELSE 0

\* C30: move_word_forward() skips the rest of the word under the cursor, then
\* the non-word characters, and lands on the first character of the next word
\* of the line, or on the end of the line when no further word starts on it;
\* it changes neither the line of the cursor nor the text, and never moves the
\* cursor backward.
C30_WordForward ==
    [][(CursorInDocument(buffer) /\ CallMoveWordForward)
       => (/\ ~buffer'.panicked
           /\ buffer'.rope = buffer.rope
           /\ buffer'.cursor.line = buffer.cursor.line
           /\ buffer'.cursor.col >= buffer.cursor.col
           /\ buffer'.cursor.col = WordForwardTarget(buffer))]_vars

\* The characters of line line_idx of r, its terminator excluded.
LineText(r, line_idx) == SubSeq(rope_line(r, line_idx), 1, line_length(r, line_idx))

\* C31: from Normal mode (no g pending), o switches the engine to Insert and
\* opens a new line: the text of the line of the cursor is unchanged whatever
\* the column, one new empty line is added directly below it, and the cursor
\* is at column 0 of the new line.
C31_OpenLineBelow ==
    [][(/\ vim.mode = "Normal"
        /\ ~vim.pending_g
        /\ CursorInDocument(buffer)
        /\ HandleKey(Char("o")))
       => (/\ vim'.mode = "Insert"
           /\ ~buffer'.panicked
           /\ len_lines(buffer'.rope) = len_lines(buffer.rope) + 1
           /\ LineText(buffer'.rope, buffer.cursor.line)
                 = LineText(buffer.rope, buffer.cursor.line)
           /\ LineText(buffer'.rope, buffer.cursor.line + 1) = <<>>
           /\ buffer'.cursor = Cursor(buffer.cursor.line + 1, 0))]_vars

\* C32: in Normal mode y y copies the current selection into the register
\* and clears the selection, and changes neither the text nor the cursor; with
\* no selection the register becomes the empty string, whatever it held.
C32_YankLine ==
    [][(vim = OperatorPending("y") /\ HandleKey(Char("y")))
       => (/\ ~buffer'.panicked
           /\ buffer'.rope = buffer.rope
           /\ buffer'.cursor = buffer.cursor
           /\ buffer'.selection = NoSelection
           /\ yank_register' =
                 IF buffer.selection = NoSelection THEN <<>>
                 ELSE InclusiveText(buffer.rope, buffer.selection[1].anchor,
                                    buffer.selection[1].head))]_vars

\* C32 witness: y y was applied in Normal mode on a document with text, and
\* the register is the empty string.
C32_YankedWithoutSelection ==
    /\ last_mode = "Normal"
    /\ last_cmd = Some(Cmd("Yank"))
    /\ vim = VimEngine_new
    /\ buffer.rope # <<>>
    /\ buffer.selection = NoSelection
    /\ yank_register = <<>>

\* The commands that write the register.
RegisterCommands == {Cmd("Yank"), Cmd("Delete"), Cmd("Change"), Cmd("DeleteLine")}

\* C33: the register changes only when a yank, delete-selection,
\* change-selection or delete-line command is applied; every other key
\* (motions, x, typing, Enter, Backspace, paste, undo, redo, mode switches)
\* leaves it unchanged.
C33_RegisterWrittenOnlyByYankAndDelete ==
    [][yank_register' # yank_register
       => (last_cmd' # None /\ last_cmd'[1] \in RegisterCommands)]_vars

\* C33 witness: x deleted a character in Normal mode while the register held
\* text, and the register still holds it.
C33_DeletedCharWithRegisterKept ==
    /\ last_mode = "Normal"
    /\ last_cmd = Some(Cmd("DeleteCharAtCursor"))
    /\ yank_register # <<>>
    /\ ~buffer.panicked

TabPaths(state) == {state.tabs[i].path : i \in 1..Len(state.tabs)}

\* C36: after any sequence of actions the editor page dispatches, an
\* update_content of a change callback created before a close_tab and delivered
\* after it included, fileContents has an entry for exactly the paths of the
\* open tabs.
C36_ContentsOfOpenTabsOnly == DOMAIN page.fileContents = TabPaths(page)

\* The action the last handler dispatched is of type type.
Dispatched(pa, type) == pa # None /\ pa[1].action # None /\ pa[1].action[1].type = type

\* C39: for every interleaving of file-tree clicks, new-note confirmations and
\* completions of read_file and create_file, no two tabs have the same path:
\* an open_file for a path that is open only changes activeTabPath, and
\* replaces neither the tab nor the cached content of that file.
C39_NoTwoTabsOfOnePath ==
    [][/\ \A i, j \in 1..Len(page'.tabs) :
             page'.tabs[i].path = page'.tabs[j].path => i = j
       /\ \A path \in Paths, ok \in BOOLEAN :
             ((ReadFileDone(path, ok) \/ CreateFileDone(path, ok)) /\ has_tab(page, path))
             => (/\ page'.tabs = page.tabs
                 /\ page'.fileContents = page.fileContents
                 /\ ok => page'.activeTabPath = Some(path))]_vars

\* C39 witness: an open_file was dispatched for a path that was open, with a
\* content other than the content cached for it, which is still there.
C39_OpenFileOfOpenPath ==
    /\ Dispatched(page_action, "open_file")
    /\ Len(page.tabs) = 2
    /\ page.fileContents[page_action[1].action[1].path] # page_action[1].action[1].content
    /\ page.activeTabPath = Some(page_action[1].action[1].path)

\* C40: activeTabPath is null exactly when no tab is open, and otherwise the
\* path of an open tab: closing the active tab makes the last remaining tab
\* active (null when none remains), closing another tab leaves the active tab
\* as it was, and activate_tab is only applied to a path that is open when the
\* reducer processes it.
C40_ActiveTabIsOpen ==
    [][/\ (page'.activeTabPath = None) = (page'.tabs = <<>>)
       /\ page'.activeTabPath # None => page'.activeTabPath[1] \in TabPaths(page')
       /\ \A path \in Paths :
             HandleTabClose(path)
             => (/\ TabPaths(page') = TabPaths(page) \ {path}
                 /\ page'.activeTabPath =
                       IF page.activeTabPath # Some(path) THEN page.activeTabPath
                       ELSE IF page'.tabs = <<>> THEN None
                       ELSE Some(page'.tabs[Len(page'.tabs)].path))
       /\ (Dispatched(page_action', "activate_tab") /\ page' # page)
             => has_tab(page, page_action'[1].action[1].path)]_vars

\* C40 witness: the tab that was active was closed while another was open,
\* and that other tab is the active one.
C40_ClosedActiveTab ==
    /\ Dispatched(page_action, "close_tab")
    /\ page_action[1].action[1].path \in inflight.changes
    /\ Len(page.tabs) = 1
    /\ page.activeTabPath = Some(page.tabs[1].path)
    /\ page.tabs[1].path # page_action[1].action[1].path

\* C37: after every key the dispatcher has handled, the buffer holds a
\* selection if and only if the engine is in Visual mode.
C37_SelectionIffVisual ==
    ~buffer.panicked => ((buffer.selection # NoSelection) <=> (vim.mode = "Visual"))

\* C37 witness: delete-line was applied to a line with text, and its temporary
\* selection is gone.
C37_DeleteLineLeftNoSelection ==
    /\ last_cmd = Some(Cmd("DeleteLine"))
    /\ yank_register # <<>>
    /\ vim.mode = "Normal"
    /\ buffer.selection = NoSelection
    /\ ~buffer.panicked

\* C38: whenever the engine is in Insert or Visual mode, no operator and no
\* g is pending: a marker set in Normal mode does not survive a mode change.
C38_NoMarkerOutsideNormal ==
    vim.mode \in {"Insert", "Visual"} => (vim.pending_operator = None /\ ~vim.pending_g)

\* C35: every key that changes the text of the buffer raises the dirty flag of
\* the tab before the next redraw, and sync_document() parses again only when
\* the flag is raised and then lowers it: whenever the flag is down the
\* document of the tab is the parse of the text of the buffer, and after the
\* sync_document() of a redraw the flag is down.
C35_DocumentFollowsText ==
    /\ ~tab[1].dirty => tab[1].document = Document_parse(buffer.rope)
    /\ last_op = "redraw" => ~tab[1].dirty

\* C35 witness: a redraw followed keys that deleted text, and the document
\* drawn is the parse of the text, with a paragraph of two lines.
C35_RedrawnAfterEdit ==
    /\ last_op = "redraw"
    /\ yank_register # <<>>
    /\ tab[1].document = Document_parse(buffer.rope)
    /\ \E i \in 1..Len(tab[1].document) : Len(tab[1].document[i].inlines) = 2

====
